---- MODULE Spec2Model ----
(***************************************************************************)
(* Model of the agar game of YushiOMOTE/mcp3: the authoritative server     *)
(* (src/server/src/main.rs), one client (src/client/src/main.rs) and the   *)
(* shared types (src/library/src/lib.rs).                                  *)
(*                                                                         *)
(* Geometry is restricted to the line y = 0: the random positions of the   *)
(* source are drawn from the finite set Coords, a cursor input carries     *)
(* y = WINDOW_HEIGHT / 2 (no vertical velocity), and the initial velocity  *)
(* Vec2::zero() pushes towards y < 0, where the clamp keeps y = 0.         *)
(* Bevy applies the Commands of a system at the end of its stage: a query  *)
(* sees the world as it stood when the stage began.                        *)
(***************************************************************************)
EXTENDS Integers, Sequences, FiniteSets, TLC

----------------------------------------------------------------------------
(* Bounds of the model *)

\* the refill target of feed_spawn_system, 100 in the source, scaled down
FeedTarget == 2
\* GameStateMessages one client pass receives at most
MaxBatch == 2

----------------------------------------------------------------------------
(* Program constants *)

AGAR_INIT_SIZE == 15
WINDOW_WIDTH == 1000
WINDOW_HEIGHT == 1000
WORLD_WIDTH == 2000
\* usize::MAX, the value "total_feeds -= 1" wraps to at 0 without overflow
\* checks: 2^64 - 1 in the source, the largest integer of the checker here
USIZE_MAX == 2147483647
\* u32::MAX, the last value of NetworkBroadcast.frame before "frame += 1"
\* overflows: 2^32 - 1 in the source, the largest integer of the checker here
U32_MAX == 2147483647

\* connection handles; handle 1 is the connection of the modelled client
Handles == {1, 2}
TheClient == 1

\* x coordinates the random positions are drawn from: two entities at the
\* same coordinate are within consuming distance, at different ones they are not
Coords == {0, 100}

\* Option: None, or Some(x)
None == << >>
Some(x) == <<x>>
Unwrap(o) == o[1]

\* cursor positions a peer sends as Input (never the window centre)
Inputs == {<<1000, 500>>}

\* z of an agar's Transform (Login) and of a feed's Transform (refill)
AgarZ == 1
FeedZ == 0

----------------------------------------------------------------------------
(* Helpers *)

Range(s) == {s[i] : i \in DOMAIN s}

Min(a, b) == IF a < b THEN a ELSE b
Max(a, b) == IF a > b THEN a ELSE b

\* the elements of a finite set of integers in ascending order
RECURSIVE SortedSeq(_)
SortedSeq(S) ==
    IF S = {} THEN << >>
    ELSE LET m == CHOOSE x \in S : \A y \in S : x <= y
         IN <<m>> \o SortedSeq(S \ {m})

\* (size - AGAR_INIT_SIZE).powf(0.8), in thousandths, for the sizes reached
Pow08Milli(d) ==
    CASE d = 0 -> 0
      [] d = 1 -> 1000
      [] d = 2 -> 1741
      [] d = 3 -> 2408
      [] d = 4 -> 3031
      [] d = 5 -> 3624
      [] d = 6 -> 4193
      [] OTHER -> (d * 1000 * 7) \div 10

\* lib.rs max_velocity, in thousandths
max_velocity(size) ==
    (500000000 \div (Pow08Milli(size - AGAR_INIT_SIZE) + 1000)) + 50000

\* Agar::new
AgarNew == [size |-> AGAR_INIT_SIZE, velocity |-> <<0, 0>>,
            max_velocity |-> max_velocity(AGAR_INIT_SIZE)]

\* Agar::grow leaving max_velocity as it was
grow_StaleVelocity(agar, size) ==
    [agar EXCEPT !.size = agar.size + size]

\* Agar::grow
grow(agar, size) ==
    [agar EXCEPT !.size = agar.size + size,
                 !.max_velocity = max_velocity(agar.size + size)]

----------------------------------------------------------------------------
(* State *)

VARIABLES
    frame,          \* server: NetworkBroadcast.frame
    agars,          \* server world: entity id -> [agar, handle, x]
    feeds,          \* server world: feed entity id -> x
    feed_updates,   \* server: the FeedUpdates resource
    nextEntity,     \* server: next entity id the world hands out
    panicked,       \* server: the process died on an arithmetic overflow panic
    c2s,            \* reliable channel, peers to server: handle -> queue
    s2c,            \* reliable channel, server to the client: queue
    gs,             \* unreliable channel: GameStateMessages sent to the client
    logins,         \* number of Login messages sent so far
    inputs,         \* number of Input messages sent so far
    player,         \* client: PlayerInfo.id, None until the LoginAck
    feed_state,     \* client: FeedState.feeds
    cagars,         \* client world: local entity -> [id, frame, agar, translation]
    cfeeds,         \* client world: local entity -> [id, frame, color, translation]
    cnext,          \* client: next local entity the world hands out
    pc,             \* client: "idle" between passes, "state" in the state loop
    batch,          \* client: the GameStateMessages this pass still receives
    received,       \* client: the GameStateMessages received so far in this pass
    updated,        \* client: the entities the last message updated ("Agar size")
    agars_to_spawn, \* client: the local of that name, id -> [frame, update]
    feed_request_num, \* client: the local of that name, None or a cursor
    commands,       \* client: Commands queued in this pass
    passes          \* number of client passes begun so far

srvVars == <<frame, agars, feeds, feed_updates, nextEntity, panicked>>
netVars == <<c2s, s2c, gs, logins, inputs>>
cliVars == <<player, feed_state, cagars, cfeeds, cnext, pc, batch, received, updated,
             agars_to_spawn, feed_request_num, commands, passes>>

----------------------------------------------------------------------------
(* FeedUpdates, src/server/src/main.rs *)

Spawn(update) == [kind |-> "Spawn", id |-> update.id, color |-> update.color,
                  translation |-> update.translation]
Despawn(id) == [kind |-> "Despawn", id |-> id]

\* HashMap::insert and HashMap::remove on a map kept as a function
MapInsert(m, k, v) == [j \in DOMAIN m \cup {k} |-> IF j = k THEN v ELSE m[j]]
MapRemove(m, k) == [j \in DOMAIN m \ {k} |-> m[j]]

EmptyMap == [j \in {} |-> 0]

FeedUpdates_default == [updates |-> << >>, snapshot |-> EmptyMap, total_feeds |-> 0]

FeedUpdates_spawn(fu, update) ==
    [updates |-> Append(fu.updates, Spawn(update)),
     snapshot |-> MapInsert(fu.snapshot, update.id, update),
     total_feeds |-> fu.total_feeds + 1]

\* FeedUpdates_despawn leaving the feed in snapshot
FeedUpdates_despawn_KeepSnapshot(fu, id) ==
    [updates |-> Append(fu.updates, [kind |-> "Despawn", id |-> id]),
     snapshot |-> fu.snapshot,
     total_feeds |-> IF fu.total_feeds = 0 THEN USIZE_MAX ELSE fu.total_feeds - 1]

\* total_feeds is a usize: "-= 1" at 0 panics with overflow checks and wraps
\* without them; the wrapped value is kept here, the panic is taken in Tick
FeedUpdates_despawn(fu, id) ==
    [updates |-> Append(fu.updates, Despawn(id)),
     snapshot |-> MapRemove(fu.snapshot, id),
     total_feeds |-> IF fu.total_feeds = 0 THEN USIZE_MAX ELSE fu.total_feeds - 1]

\* FeedUpdates_snapshot built from the log: every feed ever spawned
FeedUpdates_snapshot_AllSpawned(fu) ==
    {fu.updates[i] : i \in {j \in DOMAIN fu.updates : fu.updates[j].kind = "Spawn"}}

\* the Vec is collected from a HashMap: its order is not defined, a set here
FeedUpdates_snapshot(fu) ==
    {Spawn(fu.snapshot[id]) : id \in DOMAIN fu.snapshot}

\* the loop body of FeedUpdates::updates on the partial result (a HashMap)
UpdatesStep(updates, update) ==
    IF update.kind = "Spawn"
    THEN MapInsert(updates, update.id, update)
    ELSE IF update.id \in DOMAIN updates
         THEN MapRemove(updates, update.id)
         ELSE MapInsert(updates, update.id, update)

RECURSIVE UpdatesFold(_, _, _)
UpdatesFold(updates, log, i) ==
    IF i > Len(log) THEN updates
    ELSE UpdatesFold(UpdatesStep(updates, log[i]), log, i + 1)

\* FeedUpdates::updates as the map it builds, and as the collected events
UpdatesMap(fu, from) ==
    UpdatesFold(EmptyMap, fu.updates, Min(from, Len(fu.updates)) + 1)

FeedUpdates_updates(fu, from) ==
    LET m == UpdatesMap(fu, from) IN {m[id] : id \in DOMAIN m}

----------------------------------------------------------------------------
(* Server systems, src/server/src/main.rs *)

LoginMsg == [type |-> "Login"]
InputMsg(vel) == [type |-> "Input", vel |-> vel]
FeedRequest(num) == [type |-> "FeedRequest", update_id |-> num]
LoginAck(id) == [type |-> "LoginAck", id |-> id]
FeedResponse(updates) == [type |-> "FeedResponse", updates |-> updates]

\* ServerRecv with an Input that steers every agar, whatever its handle
ServerRecv_InputAnyHandle(acc, handle, client_message, fu) ==
    CASE client_message.type = "Login" ->
            [acc EXCEPT
               !.spawned = Append(@, [id |-> acc.next,
                                      ent |-> [agar |-> AgarNew, handle |-> handle,
                                               x |-> Head(acc.rx)]]),
               !.next = @ + 1,
               !.rx = Tail(@),
               !.acks = Append(@, [handle |-> handle, id |-> acc.next])]
      [] client_message.type = "Input" ->
            [acc EXCEPT
               !.world = [id \in DOMAIN acc.world |->
                            [acc.world[id] EXCEPT !.agar.velocity = client_message.vel]]]
      [] client_message.type = "FeedRequest" ->
            [acc EXCEPT
               !.feedsOut = Append(@,
                   [handle |-> handle,
                    updates |-> IF client_message.update_id = 0
                                THEN FeedUpdates_snapshot(fu)
                                ELSE FeedUpdates_updates(fu, client_message.update_id)])]
      [] OTHER -> acc

\* one ClientMessage received on `handle`; acc carries the locals of the system:
\*   world   the agars the query `balls` sees (the world at the stage's start)
\*   spawned the entities of this system's commands.spawn, applied afterwards
\*   acks, feedsOut  the vectors `acks` and `feeds`
\*   rx      the draws of rng.gen_range for pos_x still to be used
ServerRecv(acc, handle, client_message, fu) ==
    CASE client_message.type = "Login" ->
            [acc EXCEPT
               !.spawned = Append(@, [id |-> acc.next,
                                      ent |-> [agar |-> AgarNew, handle |-> handle,
                                               x |-> Head(acc.rx)]]),
               !.next = @ + 1,
               !.rx = Tail(@),
               !.acks = Append(@, [handle |-> handle, id |-> acc.next])]
      [] client_message.type = "Input" ->
            [acc EXCEPT
               !.world = [id \in DOMAIN acc.world |->
                            IF acc.world[id].handle = handle
                            THEN [acc.world[id] EXCEPT !.agar.velocity = client_message.vel]
                            ELSE acc.world[id]]]
      [] client_message.type = "FeedRequest" ->
            [acc EXCEPT
               !.feedsOut = Append(@,
                   [handle |-> handle,
                    updates |-> IF client_message.update_id = 0
                                THEN FeedUpdates_snapshot(fu)
                                ELSE FeedUpdates_updates(fu, client_message.update_id)])]
      [] OTHER -> acc

RECURSIVE ServerRecvAll(_, _, _, _)
ServerRecvAll(acc, handle, msgs, fu) ==
    IF msgs = << >> THEN acc
    ELSE ServerRecvAll(ServerRecv(acc, handle, Head(msgs), fu), handle, Tail(msgs), fu)

RECURSIVE ServerConnections(_, _, _, _)
ServerConnections(acc, handles, arrived, fu) ==
    IF handles = << >> THEN acc
    ELSE ServerConnections(ServerRecvAll(acc, Head(handles), arrived[Head(handles)], fu),
                           Tail(handles), arrived, fu)

\* handle_messages of the server on the messages `arrived` (handle -> queue)
\* with the draws rx; the result's world has the commands applied (end of
\* PRE_UPDATE), out is what the client's connection is sent: acks, then feeds
server_handle_messages(world, next, arrived, rx, fu) ==
    LET acc == ServerConnections(
                   [world |-> world, spawned |-> << >>, next |-> next, rx |-> rx,
                    acks |-> << >>, feedsOut |-> << >>],
                   SortedSeq(Handles), arrived, fu)
        new == {acc.spawned[i].id : i \in DOMAIN acc.spawned}
        entOf(id) == (CHOOSE i \in DOMAIN acc.spawned : acc.spawned[i].id = id)
    IN [world |-> [id \in DOMAIN acc.world \cup new |->
                     IF id \in new THEN acc.spawned[entOf(id)].ent ELSE acc.world[id]],
        next |-> acc.next,
        acks |-> acc.acks,
        feedsOut |-> acc.feedsOut]

\* SentTo sending no FeedResponse for an empty list of events
SentTo_SkipEmpty(handle, hm) ==
    LET a == SelectSeq(hm.acks, LAMBDA r : r.handle = handle)
        f == SelectSeq(hm.feedsOut, LAMBDA r : r.handle = handle /\ r.updates # {})
    IN [i \in 1..Len(a) |-> [type |-> "LoginAck", id |-> a[i].id]]
       \o [i \in 1..Len(f) |-> [type |-> "FeedResponse", updates |-> f[i].updates]]

\* what send_message puts on the connection `handle`: every ack, then every feed
SentTo(handle, hm) ==
    LET a == SelectSeq(hm.acks, LAMBDA r : r.handle = handle)
        f == SelectSeq(hm.feedsOut, LAMBDA r : r.handle = handle)
    IN [i \in 1..Len(a) |-> LoginAck(a[i].id)]
       \o [i \in 1..Len(f) |-> FeedResponse(f[i].updates)]

\* input_to_velocity: the sign of the x component of the velocity
Sign(n) == IF n > 0 THEN 1 ELSE IF n < 0 THEN -1 ELSE 0
VelocitySignX(pos) == Sign(2 * pos[1] - WINDOW_WIDTH)

\* movement_system for one agar: translation + vel * delta_seconds, clamped to
\* [0, WORLD_WIDTH]; delta_seconds is any duration >= 0, so the agar stays or
\* reaches a coordinate in the direction of its velocity
MoveSet(ent) ==
    {c \in Coords : /\ c >= 0 /\ c <= WORLD_WIDTH
                    /\ \/ c = ent.x
                       \/ Sign(c - ent.x) = VelocitySignX(ent.agar.velocity)}

movement_system(world) ==
    {[id \in DOMAIN world |-> [world[id] EXCEPT !.x = nx[id]]] :
        nx \in {f \in [DOMAIN world -> Coords] :
                    \A id \in DOMAIN world : f[id] \in MoveSet(world[id])}}

\* p.distance(q) < agar.size, squared; both transforms have y = 0
Consumes(ent, feedX) ==
    (ent.x - feedX) * (ent.x - feedX) + (AgarZ - FeedZ) * (AgarZ - FeedZ)
        < ent.agar.size * ent.agar.size

\* the inner loop of feed_collision_system: one agar against every feed of the
\* query (despawns are commands: a despawned feed stays in the query)
RECURSIVE CollideFeeds(_, _, _)
CollideFeeds(acc, feedIds, feedX) ==
    IF feedIds = << >> THEN acc
    ELSE LET entity == Head(feedIds)
             hit == Consumes(acc.ent, feedX[entity])
         IN CollideFeeds(
                IF hit
                THEN [ent |-> [acc.ent EXCEPT !.agar = grow(acc.ent.agar, 1)],
                      fu |-> FeedUpdates_despawn(acc.fu, entity),
                      despawned |-> acc.despawned \cup {entity},
                      underflow |-> acc.underflow \/ acc.fu.total_feeds = 0]
                ELSE acc,
                Tail(feedIds), feedX)

RECURSIVE CollideAgars(_, _, _)
CollideAgars(acc, agarIds, feedX) ==
    IF agarIds = << >> THEN acc
    ELSE LET id == Head(agarIds)
             r == CollideFeeds([ent |-> acc.world[id], fu |-> acc.fu,
                                despawned |-> acc.despawned,
                                underflow |-> acc.underflow],
                               SortedSeq(DOMAIN feedX), feedX)
         IN CollideAgars([world |-> [acc.world EXCEPT ![id] = r.ent],
                          fu |-> r.fu, despawned |-> r.despawned,
                          underflow |-> r.underflow],
                         Tail(agarIds), feedX)

\* feed_collision_system; entities are visited in ascending id
feed_collision_system(world, feedX, fu) ==
    CollideAgars([world |-> world, fu |-> fu, despawned |-> {}, underflow |-> FALSE],
                 SortedSeq(DOMAIN world), feedX)

\* feed_spawn_system with the draws fx of rng.gen_range for pos_x
RECURSIVE feed_spawn_system(_, _, _, _)
feed_spawn_system(fu, next, spawned, fx) ==
    IF fu.total_feeds < FeedTarget /\ fx # << >>
    THEN feed_spawn_system(
             FeedUpdates_spawn(fu, [id |-> next, color |-> "Blue",
                                    translation |-> Head(fx)]),
             next + 1, MapInsert(spawned, next, Head(fx)), Tail(fx))
    ELSE [fu |-> fu, next |-> next, spawned |-> spawned]

\* the number of feeds feed_spawn_system spawns
Refill(fu) == IF fu.total_feeds < FeedTarget THEN FeedTarget - fu.total_feeds ELSE 0

\* the GameStateMessage of network_broadcast_system
GameStateMessage(fr, world, fu) ==
    [frame |-> fr,
     agars |-> [id \in DOMAIN world |->
                   [agar |-> world[id].agar, translation |-> world[id].x]],
     feeds |-> Len(fu.updates)]

----------------------------------------------------------------------------
(* Client systems, src/client/src/main.rs *)

\* one ClientMessage of the first loop of handle_messages; acc carries
\* player.id, the feeds of commands.spawn and the local feeds_to_despawn
ClientRecv(acc, client_message) ==
    CASE client_message.type = "LoginAck" ->
            [acc EXCEPT !.player = Some(client_message.id)]
      [] client_message.type = "FeedResponse" ->
            LET ups == SortedSeq({u.id : u \in client_message.updates})
                upd(id) == CHOOSE u \in client_message.updates : u.id = id
                sp == SelectSeq(ups, LAMBDA id : upd(id).kind = "Spawn")
            IN [acc EXCEPT
                  !.spawn = @ \o [i \in 1..Len(sp) |->
                                    [id |-> sp[i], frame |-> 0,
                                     color |-> upd(sp[i]).color,
                                     translation |-> upd(sp[i]).translation]],
                  !.feeds_to_despawn =
                      @ \cup {u.id : u \in {v \in client_message.updates :
                                                v.kind = "Despawn"}}]
      [] OTHER -> acc

RECURSIVE ClientRecvAll(_, _)
ClientRecvAll(acc, msgs) ==
    IF msgs = << >> THEN acc
    ELSE ClientRecvAll(ClientRecv(acc, Head(msgs)), Tail(msgs))

\* ApplyUpdate that leaves context.frame as it was
ApplyUpdate_KeepFrame(acc, entity, left, update, message_frame) ==
    [acc EXCEPT
       !.left = left,
       !.updated = @ \cup {entity},
       !.world[entity] = [id |-> acc.world[entity].id, frame |-> acc.world[entity].frame,
                          agar |-> update.agar, translation |-> update.translation]]

\* the update of one mirrored agar (lines 183 to 188)
ApplyUpdate(acc, entity, left, update, message_frame) ==
    [acc EXCEPT
       !.left = left,
       !.updated = @ \cup {entity},
       !.world[entity] = [id |-> acc.world[entity].id, frame |-> message_frame,
                          agar |-> update.agar, translation |-> update.translation]]

\* UpdateAgar without the check of the frame: a stale message is applied
UpdateAgar_NoStaleCheck(acc, entity, message_frame) ==
    LET context == acc.world[entity] IN
    IF context.id \in DOMAIN acc.left
    THEN ApplyUpdate(acc, entity, MapRemove(acc.left, context.id),
                     acc.left[context.id], message_frame)
    ELSE [acc EXCEPT !.despawn = @ \cup {entity}]

\* UpdateAgar with the comparison of the frames turned around
UpdateAgar_OlderWins(acc, entity, message_frame) ==
    LET context == acc.world[entity] IN
    IF context.id \in DOMAIN acc.left
    THEN IF context.frame <= message_frame
         THEN [acc EXCEPT !.left = MapRemove(acc.left, context.id)]
         ELSE ApplyUpdate(acc, entity, MapRemove(acc.left, context.id),
                          acc.left[context.id], message_frame)
    ELSE [acc EXCEPT !.despawn = @ \cup {entity}]

\* UpdateAgar leaving the update of a stale message in state_message.agars
UpdateAgar_NoConsume(acc, entity, message_frame) ==
    LET context == acc.world[entity] IN
    IF context.id \in DOMAIN acc.left
    THEN IF context.frame >= message_frame
         THEN acc
         ELSE ApplyUpdate(acc, entity, MapRemove(acc.left, context.id),
                          acc.left[context.id], message_frame)
    ELSE [acc EXCEPT !.despawn = @ \cup {entity}]

\* the body of the loop "update all agars" for one entity of the query; left is
\* state_message.agars as remove() leaves it, despawn the commands.despawn
UpdateAgar(acc, entity, message_frame) ==
    LET context == acc.world[entity] IN
    IF context.id \in DOMAIN acc.left
    THEN LET update == acc.left[context.id]
             left == MapRemove(acc.left, context.id)
         IN IF context.frame >= message_frame
            THEN [acc EXCEPT !.left = left]
            ELSE ApplyUpdate(acc, entity, left, update, message_frame)
    ELSE [acc EXCEPT !.despawn = @ \cup {entity}]

\* the loop "update all agars" for one GameStateMessage: the entities of the
\* query in turn
RECURSIVE UpdateAgars(_, _, _)
UpdateAgars(acc, entities, message_frame) ==
    IF entities = << >> THEN acc
    ELSE UpdateAgars(UpdateAgar(acc, Head(entities), message_frame),
                     Tail(entities), message_frame)

\* ClientRecvState spawning the new agars inside the loop over the messages
ClientRecvState_Eager(world, to_spawn, request_num, feeds_counter, msg) ==
    LET upd == UpdateAgars([world |-> world, left |-> msg.agars, despawn |-> {},
                            updated |-> {}],
                           SortedSeq(DOMAIN world), msg.frame)
        ids == SortedSeq(DOMAIN upd.left)
        top == IF DOMAIN world = {} THEN 0
               ELSE CHOOSE e \in DOMAIN world : \A o \in DOMAIN world : o <= e
        ask == feeds_counter < msg.feeds
    IN [world |-> [e \in DOMAIN world \cup ((top + 1)..(top + Len(ids))) |->
                      IF e \in DOMAIN world THEN upd.world[e]
                      ELSE [id |-> ids[e - top], frame |-> msg.frame,
                            agar |-> upd.left[ids[e - top]].agar,
                            translation |-> upd.left[ids[e - top]].translation]],
        despawn |-> upd.despawn,
        updated |-> upd.updated,
        agars_to_spawn |-> to_spawn,
        feed_request_num |->
            IF ask /\ request_num = None THEN Some(feeds_counter) ELSE request_num,
        feeds |-> IF ask THEN msg.feeds ELSE feeds_counter]

\* ClientRecvState taking the cursor of the latest qualifying message
ClientRecvState_LatestCursor(world, to_spawn, request_num, feeds_counter, msg) ==
    LET upd == UpdateAgars([world |-> world, left |-> msg.agars, despawn |-> {},
                            updated |-> {}],
                           SortedSeq(DOMAIN world), msg.frame)
        ask == feeds_counter < msg.feeds
    IN [world |-> upd.world,
        despawn |-> upd.despawn,
        updated |-> upd.updated,
        agars_to_spawn |->
            [id \in DOMAIN to_spawn \cup DOMAIN upd.left |->
                IF id \in DOMAIN upd.left
                THEN [frame |-> msg.frame, update |-> upd.left[id]]
                ELSE to_spawn[id]],
        feed_request_num |-> IF ask THEN <<feeds_counter>> ELSE request_num,
        feeds |-> IF ask THEN msg.feeds ELSE feeds_counter]

\* the body of the loop over GameStateMessages, on the locals and the mirror
ClientRecvState(world, to_spawn, request_num, feeds_counter, msg) ==
    LET upd == UpdateAgars([world |-> world, left |-> msg.agars, despawn |-> {},
                            updated |-> {}],
                           SortedSeq(DOMAIN world), msg.frame)
        ask == feeds_counter < msg.feeds
    IN [world |-> upd.world,
        despawn |-> upd.despawn,
        updated |-> upd.updated,
        agars_to_spawn |->
            [id \in DOMAIN to_spawn \cup DOMAIN upd.left |->
                IF id \in DOMAIN upd.left
                THEN [frame |-> msg.frame, update |-> upd.left[id]]
                ELSE to_spawn[id]],
        feed_request_num |->
            IF ask /\ request_num = None THEN Some(feeds_counter) ELSE request_num,
        feeds |-> IF ask THEN msg.feeds ELSE feeds_counter]

\* the entities the queued commands.spawn create, numbered from `next`
Spawned(next, records) ==
    [e \in next..(next + Len(records) - 1) |-> records[e - next + 1]]

\* "spawn new agars": one entity per entry of agars_to_spawn
AgarsToSpawn(to_spawn) ==
    LET ids == SortedSeq(DOMAIN to_spawn)
    IN [i \in 1..Len(ids) |->
           [id |-> ids[i], frame |-> to_spawn[ids[i]].frame,
            agar |-> to_spawn[ids[i]].update.agar,
            translation |-> to_spawn[ids[i]].update.translation]]

----------------------------------------------------------------------------
(* Client: initial state and actions *)

NoCommands == [spawn_feeds |-> << >>, despawn |-> {}]

ClientInit ==
    /\ player = None
    /\ feed_state = 0
    /\ cagars = EmptyMap
    /\ cfeeds = EmptyMap
    \* entity 0 is the camera of camera_setup
    /\ cnext = 1
    /\ pc = "idle"
    /\ batch = << >>
    /\ received = << >>
    /\ updated = {}
    /\ agars_to_spawn = EmptyMap
    /\ feed_request_num = None
    /\ commands = NoCommands
    /\ passes = 0

\* the batches the unreliable channel can hand to one pass: any messages sent
\* so far, in any order, repeated or not
Batches == UNION {[1..n -> gs] : n \in 0..MaxBatch}

\* handle_messages up to the state loop: the ClientMessages that have arrived
\* (a prefix of the reliable queue) and the loop "Despawn feeds"
BeginPass ==
    /\ pc = "idle"
    /\ \E n \in 0..Len(s2c) :
          LET r == ClientRecvAll([player |-> player, spawn |-> << >>,
                                  feeds_to_despawn |-> {}],
                                 SubSeq(s2c, 1, n))
          IN /\ player' = r.player
             /\ commands' = [spawn_feeds |-> r.spawn,
                             despawn |-> {e \in DOMAIN cfeeds :
                                             cfeeds[e].id \in r.feeds_to_despawn}]
             /\ s2c' = SubSeq(s2c, n + 1, Len(s2c))
    /\ \E b \in Batches : batch' = b
    /\ pc' = "state"
    /\ received' = << >>
    /\ updated' = {}
    /\ agars_to_spawn' = EmptyMap
    /\ feed_request_num' = None
    /\ passes' = passes + 1
    /\ UNCHANGED <<feed_state, cagars, cfeeds, cnext, c2s, gs, logins, inputs>>

\* one iteration of "while let Some(state_message) = channels.recv()"
RecvState ==
    /\ pc = "state"
    /\ batch # << >>
    /\ LET r == ClientRecvState(cagars, agars_to_spawn, feed_request_num, feed_state,
                                Head(batch))
       IN /\ cagars' = r.world
          /\ commands' = [commands EXCEPT !.despawn = @ \cup r.despawn]
          /\ agars_to_spawn' = r.agars_to_spawn
          /\ feed_request_num' = r.feed_request_num
          /\ feed_state' = r.feeds
          /\ updated' = r.updated
    /\ received' = Append(received, Head(batch))
    /\ batch' = Tail(batch)
    /\ UNCHANGED <<player, cfeeds, cnext, pc, passes, netVars>>

\* the rest of the pass: the feed request, "spawn new agars", and the
\* Commands applied at the end of the stage
EndPass ==
    /\ pc = "state"
    /\ batch = << >>
    /\ LET new_feeds == Spawned(cnext, commands.spawn_feeds)
           new_agars == Spawned(cnext + Len(commands.spawn_feeds),
                                AgarsToSpawn(agars_to_spawn))
       IN /\ cfeeds' = [e \in (DOMAIN cfeeds \ commands.despawn) \cup DOMAIN new_feeds |->
                           IF e \in DOMAIN new_feeds THEN new_feeds[e] ELSE cfeeds[e]]
          /\ cagars' = [e \in (DOMAIN cagars \ commands.despawn) \cup DOMAIN new_agars |->
                           IF e \in DOMAIN new_agars THEN new_agars[e] ELSE cagars[e]]
          /\ cnext' = cnext + Len(commands.spawn_feeds)
                            + Cardinality(DOMAIN agars_to_spawn)
    /\ c2s' = IF feed_request_num = None THEN c2s
              ELSE [c2s EXCEPT ![TheClient] = Append(@, FeedRequest(Unwrap(feed_request_num)))]
    /\ pc' = "idle"
    /\ received' = << >>
    /\ updated' = {}
    /\ agars_to_spawn' = EmptyMap
    /\ feed_request_num' = None
    /\ commands' = NoCommands
    /\ UNCHANGED <<player, feed_state, batch, passes, s2c, gs, logins, inputs>>

----------------------------------------------------------------------------
(* Server and peers: initial state and actions *)

ServerInit ==
    /\ frame = 0
    /\ agars = EmptyMap
    /\ feeds = EmptyMap
    /\ feed_updates = FeedUpdates_default
    /\ nextEntity = 0
    /\ panicked = FALSE

NetInit ==
    /\ c2s = [h \in Handles |-> << >>]
    /\ s2c = << >>
    /\ gs = {}
    /\ logins = 0
    /\ inputs = 0

\* handle_packets of a peer: Login on the Connected event
SendLogin(h) ==
    /\ logins' = logins + 1
    /\ c2s' = [c2s EXCEPT ![h] = Append(@, LoginMsg)]
    /\ UNCHANGED <<s2c, gs, inputs>>

\* input_system of a peer: Input with the cursor position
SendInput(h, vel) ==
    /\ inputs' = inputs + 1
    /\ c2s' = [c2s EXCEPT ![h] = Append(@, InputMsg(vel))]
    /\ UNCHANGED <<s2c, gs, logins>>

\* a peer sends FeedRequest with a cursor of its choice (the client's is its
\* feed counter, the protocol carries any u64)
SendFeedRequest(h, num) ==
    /\ c2s' = [c2s EXCEPT ![h] = Append(@, FeedRequest(num))]
    /\ UNCHANGED <<s2c, gs, logins, inputs>>

CountLogins(arrived) ==
    LET n(h) == Cardinality({i \in DOMAIN arrived[h] : arrived[h][i].type = "Login"})
        RECURSIVE Sum(_)
        Sum(hs) == IF hs = {} THEN 0
                   ELSE LET h == CHOOSE x \in hs : TRUE IN n(h) + Sum(hs \ {h})
    IN Sum(Handles)

\* the rest of one tick after PRE_UPDATE: movement, collision, refill (UPDATE)
\* and the broadcast (POST_UPDATE). The acks and the feeds of handle_messages
\* are handed to send_message before the UPDATE stage runs. An arithmetic
\* overflow ("total_feeds -= 1" at 0, "frame += 1" at u32::MAX) panics with
\* overflow checks and wraps without them: either outcome is taken
TickUpdate(hm, rest, feedXs) ==
    \E moved \in movement_system(hm.world) :
      \E col \in {feed_collision_system(moved, feeds, feed_updates)} :
        \/ /\ col.underflow
           \* overflow checks on: "attempt to subtract with overflow"
           /\ panicked' = TRUE
           /\ s2c' = s2c \o SentTo(TheClient, hm)
           /\ c2s' = rest
           /\ UNCHANGED <<frame, agars, feeds, feed_updates, nextEntity, gs>>
        \/ \E fx \in [1..Refill(col.fu) -> feedXs] :
            \E sp \in {feed_spawn_system(col.fu, hm.next, EmptyMap, fx)} :
              /\ agars' = col.world
              /\ feeds' = [id \in (DOMAIN feeds \ col.despawned) \cup DOMAIN sp.spawned |->
                              IF id \in DOMAIN sp.spawned THEN sp.spawned[id]
                              ELSE feeds[id]]
              /\ feed_updates' = sp.fu
              /\ nextEntity' = sp.next
              /\ s2c' = s2c \o SentTo(TheClient, hm)
              /\ c2s' = rest
              /\ \/ /\ frame = U32_MAX
                    \* overflow checks on: "attempt to add with overflow"
                    /\ panicked' = TRUE
                    /\ UNCHANGED <<frame, gs>>
                 \/ /\ gs' = gs \cup {GameStateMessage(frame, col.world, sp.fu)}
                    /\ frame' = IF frame = U32_MAX THEN 0 ELSE frame + 1
                    /\ UNCHANGED panicked

\* one pass of the server's schedule; the messages received are those that
\* have arrived: a prefix of each reliable queue. loginXs and feedXs are the
\* outcomes of the random positions of Login and of the refill
Tick(loginXs, feedXs) ==
    /\ ~panicked
    /\ \E k \in [Handles -> 0..Max(Len(c2s[1]), Len(c2s[2]))] :
          /\ \A h \in Handles : k[h] <= Len(c2s[h])
          /\ LET arrived == [h \in Handles |-> SubSeq(c2s[h], 1, k[h])]
                 rest == [h \in Handles |-> SubSeq(c2s[h], k[h] + 1, Len(c2s[h]))]
             IN \E rx \in [1..CountLogins(arrived) -> loginXs] :
                 \E hm \in {server_handle_messages(agars, nextEntity, arrived, rx,
                                                   feed_updates)} :
                   TickUpdate(hm, rest, feedXs)
    /\ UNCHANGED <<logins, inputs>>

----------------------------------------------------------------------------
(* Specifications *)

vars == <<srvVars, netVars, cliVars>>

Init == ServerInit /\ NetInit /\ ClientInit

\* bounds of SpecServer: ticks, Login messages, Input messages
SrvFrames == 2
SrvLogins == 2
SrvInputs == 1

ServerNext ==
    \/ \E h \in Handles : logins < SrvLogins /\ SendLogin(h) /\ UNCHANGED srvVars
                            /\ UNCHANGED cliVars
    \/ \E h \in Handles, vel \in Inputs :
          inputs < SrvInputs /\ SendInput(h, vel) /\ UNCHANGED srvVars
             /\ UNCHANGED cliVars
    \/ frame < SrvFrames /\ Tick(Coords, Coords) /\ UNCHANGED cliVars

\* the server and the messages of its peers; the client's reconciler is idle
SpecServer == Init /\ [][ServerNext]_vars

\* bounds of SpecRecon: ticks, Login messages, client passes
ReconFrames == 2
ReconLogins == 1
ReconPasses == 2

\* Every connection logs in once (handle_packets sends one Login per Connected
\* event), the client first. The batch of a pass is drawn when the pass begins,
\* so a tick taken during a pass commutes with the steps of the pass: ticks are
\* taken between passes. The feeds are spawned at the far edge of the world,
\* where no agar eats.
ReconNext ==
    \/ \E h \in Handles : logins < ReconLogins /\ h = logins + 1 /\ SendLogin(h)
                            /\ UNCHANGED srvVars /\ UNCHANGED cliVars
    \/ frame < ReconFrames /\ pc = "idle" /\ Tick(Coords, {WORLD_WIDTH})
          /\ UNCHANGED cliVars
    \/ passes < ReconPasses /\ BeginPass /\ UNCHANGED srvVars
    \/ RecvState /\ UNCHANGED srvVars
    \/ EndPass /\ UNCHANGED srvVars

\* the server, the client and the agars of two peers
SpecRecon == Init /\ [][ReconNext]_vars

\* bounds of SpecFeed: ticks, client passes
FeedFrames == 4
FeedPasses == 3

\* one agar, the client's, standing at coordinate 0, and feeds spawned next
\* to it or out of its reach
FeedNext ==
    \/ logins < 1 /\ SendLogin(TheClient) /\ UNCHANGED srvVars /\ UNCHANGED cliVars
    \/ frame < FeedFrames /\ pc = "idle" /\ Tick({0}, Coords) /\ UNCHANGED cliVars
    \/ passes < FeedPasses /\ BeginPass /\ UNCHANGED srvVars
    \/ RecvState /\ UNCHANGED srvVars
    \/ EndPass /\ UNCHANGED srvVars

\* the server and the client exchanging the feed history
SpecFeed == Init /\ [][FeedNext]_vars

\* bounds of SpecAsk: ticks, client passes
AskFrames == 3
AskPasses == 2

\* the client alone with the server: its agar stands at coordinate 0 and eats
\* the feeds, every one of them spawned there; the client asks for the feed
\* history it misses
AskNext ==
    \/ logins < 1 /\ SendLogin(TheClient) /\ UNCHANGED srvVars /\ UNCHANGED cliVars
    \/ frame < AskFrames /\ pc = "idle" /\ Tick({0}, {0}) /\ UNCHANGED cliVars
    \/ passes < AskPasses /\ BeginPass /\ UNCHANGED srvVars
    \/ RecvState /\ UNCHANGED srvVars
    \/ EndPass /\ UNCHANGED srvVars

SpecAsk == Init /\ [][AskNext]_vars

\* bounds of SpecBackfill: ticks, messages waiting on the reliable channel
BackfillFrames == 2
BackfillQueue == 2

\* cursors a peer asks with: 0, inside the log, beyond any log of the model
RequestCursors == {0, 1, 1000}

\* the server and one peer that logs in and then asks for the feed history
\* with any cursor; its agar stands at coordinate 0, where the feeds are spawned
BackfillNext ==
    \/ /\ logins < 1 /\ Len(c2s[TheClient]) < BackfillQueue
       /\ SendLogin(TheClient) /\ UNCHANGED srvVars /\ UNCHANGED cliVars
    \/ \E num \in RequestCursors :
          /\ logins = 1 /\ Len(c2s[TheClient]) < BackfillQueue
          /\ SendFeedRequest(TheClient, num) /\ UNCHANGED srvVars /\ UNCHANGED cliVars
    \/ frame < BackfillFrames /\ Tick({0}, {0}) /\ UNCHANGED cliVars

SpecBackfill == Init /\ [][BackfillNext]_vars

\* bounds of SpecLongRun: broadcasts, Login messages
LongRunTicks == 3
LongRunLogins == 2

\* the server after u32::MAX - 1 ticks during which no peer has logged in: the
\* feeds of the first refill are all there, the frame counter is one short of
\* its last value and no message is in flight
LongRunInit ==
    /\ frame = U32_MAX - 1
    /\ agars = EmptyMap
    /\ \E fx \in [1..FeedTarget -> Coords] :
          LET sp == feed_spawn_system(FeedUpdates_default, 0, EmptyMap, fx)
          IN /\ feeds = sp.spawned
             /\ feed_updates = sp.fu
             /\ nextEntity = sp.next
    /\ panicked = FALSE
    /\ NetInit
    /\ ClientInit

LongRunNext ==
    \/ \E h \in Handles : logins < LongRunLogins /\ SendLogin(h)
                            /\ UNCHANGED srvVars /\ UNCHANGED cliVars
    \/ Cardinality(gs) < LongRunTicks /\ Tick(Coords, Coords) /\ UNCHANGED cliVars

\* the server when its frame counter reaches the end of u32
SpecLongRun == LongRunInit /\ [][LongRunNext]_vars

\* bounds of SpecPlay: ticks, Login and Input messages together
PlayFrames == 2
PlayMsgs == 3

\* the server and its peers again, every agar placed at coordinate 0 by its
\* Login (agars on the same connection or on two coincide) and moved from
\* there by the Inputs
PlayNext ==
    \/ \E h \in Handles : logins + inputs < PlayMsgs /\ SendLogin(h)
                            /\ UNCHANGED srvVars /\ UNCHANGED cliVars
    \/ \E h \in Handles, vel \in Inputs :
          logins + inputs < PlayMsgs /\ SendInput(h, vel) /\ UNCHANGED srvVars
             /\ UNCHANGED cliVars
    \/ frame < PlayFrames /\ Tick({0}, Coords) /\ UNCHANGED cliVars

SpecPlay == Init /\ [][PlayNext]_vars

----------------------------------------------------------------------------
(* The feed event log: replay and compaction (C7 - C10) *)

\* the ids live after replaying the first n events of the log
RECURSIVE ReplayIds(_, _)
ReplayIds(log, n) ==
    IF n = 0 THEN {}
    ELSE IF log[n].kind = "Spawn" THEN ReplayIds(log, n - 1) \cup {log[n].id}
         ELSE ReplayIds(log, n - 1) \ {log[n].id}

\* a receiver holding `live` applies a set of events
ApplyEvents(live, events) ==
    (live \cup {e.id : e \in {u \in events : u.kind = "Spawn"}})
        \ {e.id : e \in {u \in events : u.kind = "Despawn"}}

Cursors == 0..Len(feed_updates.updates)

WindowHas(from, kind, id) ==
    \E i \in (from + 1)..Len(feed_updates.updates) :
        feed_updates.updates[i].kind = kind /\ feed_updates.updates[i].id = id

\* C7: for every cursor from in [0, log length], applying updates(from) to the
\* live set replayed from events[0..from] gives exactly the key set of
\* snapshot, and updates(from) holds at most one event per id.
C7_UpdatesConverge ==
    \A from \in Cursors :
        LET events == FeedUpdates_updates(feed_updates, from) IN
        /\ ApplyEvents(ReplayIds(feed_updates.updates, from), events)
               = DOMAIN feed_updates.snapshot
        /\ \A e1, e2 \in events : e1.id = e2.id => e1 = e2

\* C8: an id spawned before the cursor whose window events[from..] holds one
\* or more Despawn(id) and no Spawn(id) has a Despawn(id) in updates(from).
C8_DespawnKept ==
    \A from \in Cursors :
        \A id \in ReplayIds(feed_updates.updates, from) :
            (WindowHas(from, "Despawn", id) /\ ~WindowHas(from, "Spawn", id))
                => Despawn(id) \in FeedUpdates_updates(feed_updates, from)

\* C9: when Spawn(id) and a later Despawn(id) both lie at or after the cursor,
\* updates(from) holds no event for that id.
C9_PairCancelled ==
    \A from \in Cursors :
        \A i \in (from + 1)..Len(feed_updates.updates) :
            \A j \in (i + 1)..Len(feed_updates.updates) :
                LET log == feed_updates.updates IN
                (log[i].kind = "Spawn" /\ log[j].kind = "Despawn" /\ log[i].id = log[j].id)
                    => \A e \in FeedUpdates_updates(feed_updates, from) : e.id # log[i].id

\* C10: every Despawn(id) of the log was appended while id was in snapshot
\* (the ids live after replaying the events before it), so no id has two
\* Despawn events.
C10_DespawnPrecondition ==
    LET log == feed_updates.updates IN
    /\ \A n \in DOMAIN log :
          log[n].kind = "Despawn" => log[n].id \in ReplayIds(log, n - 1)
    /\ \A i, j \in DOMAIN log :
          (i < j /\ log[i].kind = "Despawn" /\ log[j].kind = "Despawn")
              => log[i].id # log[j].id

\* the map obtained by replaying the first n events of the log: Spawn inserts
\* the id with its data, Despawn removes it
RECURSIVE ReplayMap(_, _)
ReplayMap(log, n) ==
    IF n = 0 THEN [j \in {} |-> 0]
    ELSE LET m == ReplayMap(log, n - 1)
             e == log[n]
         IN IF e.kind = "Spawn"
            THEN [j \in DOMAIN m \cup {e.id} |->
                     IF j = e.id THEN [id |-> e.id, color |-> e.color,
                                       translation |-> e.translation]
                     ELSE m[j]]
            ELSE [j \in DOMAIN m \ {e.id} |-> m[j]]

\* C11: in every reachable server state, replaying the whole event log from
\* index 0 gives a map equal to snapshot.
C11_ReplayIsSnapshot ==
    ReplayMap(feed_updates.updates, Len(feed_updates.updates)) = feed_updates.snapshot

\* the log holds spawns and despawns, one feed despawned twice among them, and
\* feeds are live
C11_Witness ==
    LET log == feed_updates.updates IN
    /\ DOMAIN feed_updates.snapshot # {}
    /\ \E i, j \in DOMAIN log :
          /\ i < j
          /\ log[i].kind = "Despawn" /\ log[j].kind = "Despawn"
          /\ log[i].id = log[j].id
    /\ \E i \in DOMAIN log : log[i].kind = "Spawn" /\ log[i].translation # 0

----------------------------------------------------------------------------
(* The client reconciler (C1 - C4) *)

\* the ids of the mirrored agars
MirroredIds == {cagars[e].id : e \in DOMAIN cagars}

\* the entities queued for despawn by the step
NewlyDespawned == commands'.despawn \ commands.despawn

\* C1: when a GameStateMessage with frame F is received, a mirrored agar with
\* UpdateContext.frame >= F whose id is in the message keeps its attributes,
\* its position and its frame, and its id is not buffered for a spawn.
C1_StaleUpdateSkipped ==
    [][RecvState =>
         \A e \in DOMAIN cagars :
            (cagars[e].frame >= Head(batch).frame
                /\ cagars[e].id \in DOMAIN Head(batch).agars)
            => /\ e \in DOMAIN cagars'
               /\ cagars'[e] = cagars[e]
               /\ cagars[e].id \notin DOMAIN agars_to_spawn']_vars

\* a stale message for a mirrored agar, carrying another position or other
\* attributes, has just been received
C1_Witness ==
    /\ pc = "state"
    /\ received # << >>
    /\ \E e \in DOMAIN cagars :
          LET msg == received[Len(received)] IN
          /\ cagars[e].frame > msg.frame
          /\ cagars[e].id \in DOMAIN msg.agars
          /\ msg.agars[cagars[e].id].translation # cagars[e].translation
          /\ cagars[e].id \notin DOMAIN agars_to_spawn

\* C2: a GameStateMessage with frame F despawns a mirrored agar only if the
\* agar's UpdateContext.frame is < F and its id is absent from the message.
C2_RemovalOnlyByNewer ==
    [][RecvState =>
         \A e \in NewlyDespawned :
            /\ cagars[e].frame < Head(batch).frame
            /\ cagars[e].id \notin DOMAIN Head(batch).agars]_vars

\* C3: the UpdateContext.frame of a mirrored entity never decreases; it changes
\* only when a message with a strictly greater frame that holds its id is
\* received, and then becomes that message's frame.
C3_FrameMonotone ==
    [][\A e \in DOMAIN cagars \cap DOMAIN cagars' :
          /\ cagars'[e].frame >= cagars[e].frame
          /\ cagars'[e].frame # cagars[e].frame
             => /\ pc = "state" /\ batch # << >> /\ batch' = Tail(batch)
                /\ Head(batch).frame > cagars[e].frame
                /\ cagars[e].id \in DOMAIN Head(batch).agars
                /\ cagars'[e].frame = Head(batch).frame]_vars

\* a message has just raised the frame of a mirrored entity
C3_Witness ==
    /\ pc = "state"
    /\ received # << >>
    /\ \E e \in updated :
          /\ cagars[e].frame = received[Len(received)].frame
          /\ cagars[e].frame > 0

\* the ids of the messages of this pass that were not mirrored when it began
NewInPass ==
    (UNION {DOMAIN received[i].agars : i \in DOMAIN received}) \ MirroredIds

\* C4: at the end of a pass exactly one entity is created for every id of the
\* pass's messages that was not mirrored, however many messages held it, and
\* no mirror entity is created before the last message has been processed.
C4_OneSpawnPerId ==
    [][/\ (pc = "state" /\ batch = << >> /\ pc' = "idle")
            => \A id \in NewInPass :
                  Cardinality({e \in DOMAIN cagars' \ DOMAIN cagars :
                                  cagars'[e].id = id}) = 1
       /\ (DOMAIN cagars' \ DOMAIN cagars # {})
            => (pc = "state" /\ batch = << >> /\ pc' = "idle")]_vars

\* every message of the pass is processed and two of them hold the same id,
\* not mirrored so far: one entry waits in agars_to_spawn
C4_Witness ==
    /\ pc = "state"
    /\ batch = << >>
    /\ \E i, j \in DOMAIN received :
          /\ i < j
          /\ received[i] # received[j]
          /\ \E id \in NewInPass :
                id \in DOMAIN received[i].agars \cap DOMAIN received[j].agars
                   /\ id \in DOMAIN agars_to_spawn

----------------------------------------------------------------------------
(* Mirroring the feeds end to end (C5, C6) *)

\* the ids of the mirrored feeds
MirroredFeedIds == {cfeeds[e].id : e \in DOMAIN cfeeds}

\* C5: the client never holds two mirrored feed entities with the same id.
C5_NoDuplicateFeed ==
    \A e1, e2 \in DOMAIN cfeeds : cfeeds[e1].id = cfeeds[e2].id => e1 = e2

\* nothing is in flight on the reliable channel between the client and the
\* server, the client is between two passes and has seen the counter of the
\* whole log: no state message makes it ask for more
Settled ==
    /\ ~panicked
    /\ pc = "idle"
    /\ s2c = << >>
    /\ c2s[TheClient] = << >>
    /\ feed_state = Len(feed_updates.updates)

\* C6: once every FeedRequest and FeedResponse is delivered and processed and
\* the client has seen the counter of the log as it stands, the ids of the
\* mirrored feeds are the keys of the server's snapshot.
C6_FeedsConverge ==
    Settled => MirroredFeedIds = DOMAIN feed_updates.snapshot

----------------------------------------------------------------------------
(* The feed backfill protocol (C12 - C14) *)

\* in a step of the server: the messages it has drained from the client's
\* connection, and what it has handed to send_message for the client
DrainedByServer == SubSeq(c2s[TheClient], 1, Len(c2s[TheClient]) - Len(c2s'[TheClient]))
SentByServer == SubSeq(s2c', Len(s2c) + 1, Len(s2c'))
FeedRequestsDrained == SelectSeq(DrainedByServer, LAMBDA m : m.type = "FeedRequest")
FeedResponsesSent == SelectSeq(SentByServer, LAMBDA m : m.type = "FeedResponse")

\* in a step of the client: the FeedResponses it has drained
FeedResponsesDrained ==
    SelectSeq(SubSeq(s2c, 1, Len(s2c) - Len(s2c')), LAMBDA m : m.type = "FeedResponse")

\* C12: the response to FeedRequest(0) holds one Spawn per feed of snapshot as
\* it stands when the response is built and no Despawn; a client with no
\* mirrored feed that applies such a response alone mirrors exactly its ids,
\* each once.
C12_SnapshotReplay ==
    [][/\ \A k \in DOMAIN FeedRequestsDrained :
            (FeedRequestsDrained[k].update_id = 0 /\ k <= Len(FeedResponsesSent))
            => LET events == FeedResponsesSent[k].updates IN
               /\ \A u \in events : u.kind = "Spawn"
               /\ {u.id : u \in events} = DOMAIN feed_updates.snapshot
               /\ Cardinality(events) = Cardinality(DOMAIN feed_updates.snapshot)
       /\ (pc = "idle" /\ pc' = "state" /\ cfeeds = EmptyMap
             /\ Len(FeedResponsesDrained) = 1
             /\ \A u \in FeedResponsesDrained[1].updates : u.kind = "Spawn")
            => LET events == FeedResponsesDrained[1].updates IN
               /\ {e \in commands'.despawn : e \in DOMAIN cfeeds} = {}
               /\ Len(commands'.spawn_feeds) = Cardinality(events)
               /\ {commands'.spawn_feeds[i].id : i \in DOMAIN commands'.spawn_feeds}
                     = {u.id : u \in events}
       /\ (pc = "state" /\ pc' = "idle" /\ cfeeds = EmptyMap)
            => /\ Cardinality(DOMAIN cfeeds') = Len(commands.spawn_feeds)
               /\ {cfeeds'[e].id : e \in DOMAIN cfeeds'}
                     = {commands.spawn_feeds[i].id : i \in DOMAIN commands.spawn_feeds}
      ]_vars

\* the client mirrors, each once, the feeds that were live at some point of
\* the log after a despawn: a snapshot that differs from the feeds ever spawned
C12_Witness ==
    /\ pc = "idle"
    /\ cfeeds # EmptyMap
    /\ \A e1, e2 \in DOMAIN cfeeds : cfeeds[e1].id = cfeeds[e2].id => e1 = e2
    /\ \E n \in DOMAIN feed_updates.updates :
          /\ feed_updates.updates[n].kind = "Despawn"
          /\ \E k \in n..Len(feed_updates.updates) :
                MirroredFeedIds = ReplayIds(feed_updates.updates, k)

\* the feed counter the client held when the pass began: the cursor of the
\* request once one is decided, the stored counter until then
PassStartCounter ==
    IF feed_request_num = None THEN feed_state ELSE Unwrap(feed_request_num)

\* the feed counters of the state messages received so far in the pass
ReceivedCounters == {received[i].feeds : i \in DOMAIN received}

\* C13: a pass sends one FeedRequest if a state message of the pass carries a
\* feed counter greater than the counter stored when the pass began, and none
\* otherwise; its cursor is that stored counter, and after the pass the stored
\* counter is the maximum of its old value and the counters received.
C13_OneFeedRequest ==
    [][/\ (pc = "idle" /\ pc' = "state") => PassStartCounter' = feed_state
       /\ (pc = "state" /\ pc' = "state") => PassStartCounter' = PassStartCounter
       /\ (pc = "state" /\ pc' = "idle")
            => /\ feed_state' = feed_state
               /\ \A c \in ReceivedCounters \cup {PassStartCounter} : c <= feed_state
               /\ feed_state \in ReceivedCounters \cup {PassStartCounter}
               /\ c2s'[TheClient] =
                     IF \E c \in ReceivedCounters : c > PassStartCounter
                     THEN Append(c2s[TheClient], FeedRequest(PassStartCounter))
                     ELSE c2s[TheClient]
      ]_vars

\* every message of the pass is received: two of them carry counters above
\* the stored one, the greater first, and the stored counter was not 0
C13_Witness ==
    /\ pc = "state"
    /\ batch = << >>
    /\ Len(received) >= 2
    /\ PassStartCounter > 0
    /\ received[2].feeds > PassStartCounter
    /\ received[1].feeds > received[2].feeds
    /\ feed_request_num = Some(PassStartCounter)

\* C14: for every FeedRequest(cursor) the server drains from the connection in
\* a tick it sends one FeedResponse on it in that tick, in the order of the
\* requests: snapshot() if cursor = 0 and updates(cursor) otherwise, on the log
\* as it stands before the tick's collision and refill; a cursor beyond the
\* log gives no event.
C14_BackfillResponse ==
    [][/\ Len(FeedResponsesSent) = Len(FeedRequestsDrained)
       /\ \A k \in DOMAIN FeedRequestsDrained :
            k <= Len(FeedResponsesSent) =>
            LET cursor == FeedRequestsDrained[k].update_id
                events == FeedResponsesSent[k].updates
            IN /\ cursor = 0
                    => events = {Spawn(feed_updates.snapshot[id]) :
                                    id \in DOMAIN feed_updates.snapshot}
               /\ cursor # 0 => events = FeedUpdates_updates(feed_updates, cursor)
               /\ cursor > Len(feed_updates.updates) => events = {}
      ]_vars

\* two requests drained in one tick were answered with different events, the
\* live feeds and a part of them, and a request was answered with no event
C14_Witness ==
    \E i, j, k \in DOMAIN s2c :
        /\ s2c[i].type = "FeedResponse" /\ s2c[j].type = "FeedResponse"
        /\ s2c[k].type = "FeedResponse"
        /\ j = i + 1
        /\ Cardinality(s2c[i].updates) = FeedTarget
        /\ s2c[j].updates # {} /\ s2c[j].updates # s2c[i].updates
        /\ s2c[k].updates = {}

----------------------------------------------------------------------------
(* The server's counters and agars (C15 - C19) *)

\* C15: every broadcast carries the frame counter as it stands and the
\* counter is then one more; no step resets or decreases it.
C15_FrameCounter ==
    [][/\ frame' >= frame
       /\ frame' # frame => frame' - 1 = frame
       /\ \A m \in gs' \ gs : m.frame = frame /\ frame' - 1 = frame
      ]_vars

\* C16: at most one agar entity carries a given connection handle.
C16_OneAgarPerHandle ==
    \A a, b \in DOMAIN agars : agars[a].handle = agars[b].handle => a = b

\* in a tick: the events the tick has appended to the log, the feeds live
\* when the refill runs and the feeds the refill spawns
AppendedEvents ==
    SubSeq(feed_updates'.updates, Len(feed_updates.updates) + 1,
           Len(feed_updates'.updates))
LiveBeforeRefill ==
    DOMAIN feed_updates.snapshot
        \ {AppendedEvents[i].id : i \in {j \in DOMAIN AppendedEvents :
                                            AppendedEvents[j].kind = "Despawn"}}
RefillSpawns ==
    Cardinality({i \in DOMAIN AppendedEvents : AppendedEvents[i].kind = "Spawn"})

\* C17: the refill of a tick spawns max(0, target - live feeds) feeds; after
\* it the live feeds, as many as the feed entities of the world, are at least
\* the target and never more.
C17_RefillToTarget ==
    [][frame' # frame =>
          /\ RefillSpawns = Max(0, FeedTarget - Cardinality(LiveBeforeRefill))
          /\ Cardinality(DOMAIN feed_updates'.snapshot) >= FeedTarget
          /\ Cardinality(DOMAIN feed_updates'.snapshot) <= FeedTarget
          /\ DOMAIN feeds' = DOMAIN feed_updates'.snapshot
      ]_vars

\* what the agars of the world have grown by in a step; an agar spawned in
\* the step has grown from AGAR_INIT_SIZE
RECURSIVE GrowthOf(_)
GrowthOf(ids) ==
    IF ids = {} THEN 0
    ELSE LET id == CHOOSE x \in ids : TRUE
         IN (agars'[id].agar.size
                - (IF id \in DOMAIN agars THEN agars[id].agar.size ELSE AGAR_INIT_SIZE))
            + GrowthOf(ids \ {id})

ConsumedInStep ==
    Cardinality({i \in DOMAIN AppendedEvents : AppendedEvents[i].kind = "Despawn"})

\* C18: the size of an agar never decreases, the agars grow by 1 for every feed
\* consumed, and max_velocity is max_velocity(size) for the agar's size;
\* an Input changes neither.
C18_MonotonicGrowth ==
    [][/\ \A id \in DOMAIN agars :
            id \in DOMAIN agars' /\ agars'[id].agar.size >= agars[id].agar.size
       /\ GrowthOf(DOMAIN agars') = ConsumedInStep
       /\ \A id \in DOMAIN agars' :
            agars'[id].agar.max_velocity = max_velocity(agars'[id].agar.size)
      ]_vars

\* an agar that an Input steers has grown, another one has not
C18_Witness ==
    \E a, b \in DOMAIN agars :
        /\ agars[a].agar.size > AGAR_INIT_SIZE
        /\ agars[a].agar.velocity \in Inputs
        /\ agars[b].agar.size = AGAR_INIT_SIZE

\* handle_messages of the server on the messages msgs, received on the
\* connection h alone, in the current state
HandleOn(h, msgs, rx) ==
    server_handle_messages(agars, nextEntity,
                           [x \in Handles |-> IF x = h THEN msgs ELSE << >>],
                           rx, feed_updates)

\* the agars with the velocity of those mapped to h set to v
Steered(h, v) ==
    [id \in DOMAIN agars |->
        IF agars[id].handle = h THEN [agars[id] EXCEPT !.agar.velocity = v]
        ELSE agars[id]]

\* in a step of the server: the messages drained from the connection h and
\* the velocity of the last Input among them
DrainedOn(h) == SubSeq(c2s[h], 1, Len(c2s[h]) - Len(c2s'[h]))
InputsOn(h) == SelectSeq(DrainedOn(h), LAMBDA m : m.type = "Input")

\* C19: an Input(v) received on h sets the velocity of the agars mapped to h
\* to v and changes no other agar, no position, no size and sends no reply;
\* with no agar mapped to h, the agar of a Login received just before it on h
\* included, it changes nothing.  In every tick the server completes, the
\* velocity of an agar is that of the last Input drained from its connection.
C19_InputFrameCondition ==
    [][/\ \A h \in Handles, v \in Inputs :
            /\ LET r == HandleOn(h, <<InputMsg(v)>>, << >>)
               IN /\ r.world = Steered(h, v)
                  /\ r.next = nextEntity
                  /\ r.acks = << >>
                  /\ r.feedsOut = << >>
            /\ LET r == HandleOn(h, <<LoginMsg, InputMsg(v)>>, <<0>>)
               IN /\ DOMAIN r.world = DOMAIN agars \cup {nextEntity}
                  /\ r.world[nextEntity].agar = AgarNew
                  /\ \A id \in DOMAIN agars : r.world[id] = Steered(h, v)[id]
                  /\ Len(r.acks) = 1
                  /\ r.feedsOut = << >>
       /\ panicked' \/ \A id \in DOMAIN agars' :
            agars'[id].agar.velocity =
                IF id \notin DOMAIN agars THEN <<0, 0>>
                ELSE IF InputsOn(agars[id].handle) = << >>
                     THEN agars[id].agar.velocity
                     ELSE InputsOn(agars[id].handle)[Len(InputsOn(agars[id].handle))].vel
      ]_vars

\* two connections have an agar each and the Input received on one of them
\* has steered its agar alone
C19_Witness ==
    \E a, b \in DOMAIN agars :
        /\ agars[a].handle # agars[b].handle
        /\ agars[a].agar.velocity \in Inputs
        /\ agars[b].agar.velocity = <<0, 0>>

----------------------------------------------------------------------------
(* The ids of the mirrored agars (C20) *)

\* C20: no two mirrored agars have the same UpdateContext.id, whatever state
\* messages the passes received, and no agar buffered for the spawn at the
\* end of the pass has the id of a mirrored one.
C20_UniqueMirroredIds ==
    /\ \A e1, e2 \in DOMAIN cagars : cagars[e1].id = cagars[e2].id => e1 = e2
    /\ \A e \in DOMAIN cagars : cagars[e].id \notin DOMAIN agars_to_spawn

\* the second pass has received two state messages that both list an agar
\* the first pass spawned
C20_Witness ==
    /\ passes = 2
    /\ pc = "state"
    /\ Len(received) = 2
    /\ \E e \in DOMAIN cagars :
          \A i \in 1..2 : cagars[e].id \in DOMAIN received[i].agars

----------------------------------------------------------------------------
(* The frame and the attributes of a mirrored agar (C21) *)

\* what a mirrored agar shows of the server's agar
Mirrored(e) == [agar |-> cagars[e].agar, translation |-> cagars[e].translation]

\* C21: the attributes and the position of every mirrored agar are those the
\* server broadcast for its id in the state message of the frame recorded in
\* its UpdateContext.
C21_MirrorMatchesFrame ==
    \A e \in DOMAIN cagars :
        \E m \in gs : /\ m.frame = cagars[e].frame
                      /\ cagars[e].id \in DOMAIN m.agars
                      /\ m.agars[cagars[e].id] = Mirrored(e)

\* an agar spawned by an earlier pass has been updated in this one, and the
\* server broadcast other attributes for it in another frame
C21_Witness ==
    \E e \in updated :
        /\ e \in DOMAIN cagars
        /\ \E m \in gs : /\ m.frame # cagars[e].frame
                         /\ cagars[e].id \in DOMAIN m.agars
                         /\ m.agars[cagars[e].id] # Mirrored(e)

----------------------------------------------------------------------------
(* The Despawn of a mirrored feed (C22) *)

\* in a step of the client that drains the reliable channel: the ids of the
\* Despawn events delivered to the pass
DespawnsDelivered ==
    UNION {{u.id : u \in {v \in FeedResponsesDrained[k].updates : v.kind = "Despawn"}} :
              k \in DOMAIN FeedResponsesDrained}

\* ... and the ids of the feeds mirrored once the Commands of the pass are
\* applied: those the queued despawns leave and those the queued spawns add
FeedIdsAfterPass ==
    {cfeeds[e].id : e \in DOMAIN cfeeds \ commands'.despawn}
        \cup {commands'.spawn_feeds[i].id : i \in DOMAIN commands'.spawn_feeds}

\* C22: after a pass, no mirrored feed has the id of a Despawn that a
\* FeedResponse delivered to the pass, also when its Spawn was delivered by an
\* earlier FeedResponse of the same pass.
C22_DespawnEffective ==
    [][DespawnsDelivered \cap FeedIdsAfterPass = {}]_vars

====
